---- MODULE Spec2Model ----
(***************************************************************************)
(* LSB steganography: the delimiter-framed codec of SteganographyTool      *)
(* (steganography_tool.py) and the length-prefixed codec of hide / extract *)
(* (steganography_hide.py, steganography_extract.py, steganography_utils). *)
(*                                                                         *)
(* Bytes and channel values are integers 0..255, bit strings are sequences *)
(* of 0/1, Python str values are sequences of code points, and an image is *)
(* a record [channels, pixels] whose pixels are tuples of channel values,  *)
(* as Image.getdata() returns them.                                        *)
(***************************************************************************)
EXTENDS Integers, Sequences, FiniteSets, TLC

VARIABLES cover, secret, secret_ext, stego, outdir, nextract, last

vars == <<cover, secret, secret_ext, stego, outdir, nextract, last>>

----------------------------------------------------------------------------
(* Bounds of the model *)

\* number of extractions a behaviour performs into the output folder
MaxExtractions == 2

\* MAX_FILE_SIZE is 10 MiB in the source; the model keeps the comparison and
\* scales the ceiling so that files at, below and above it can be enumerated
MaxFileSizeScaled == 15

\* pixel count of the covers that hold every payload of the model
BigPixels == 80

----------------------------------------------------------------------------
(* Python primitives the codecs use *)

Min(a, b) == IF a < b THEN a ELSE b

\* s[a:b] for 0 <= a, on a sequence (Python slices clamp to the length)
Slice(s, a, b) == SubSeq(s, a + 1, Min(b, Len(s)))

\* format(byte, '08b')
Format08b(byte) == [k \in 1..8 |-> (byte \div (2 ^ (8 - k))) % 2]

\* format(n, '0<width>b') for 0 <= n < 2^width
RECURSIVE FormatBits(_, _)
FormatBits(n, width) ==
    IF width = 0 THEN << >> ELSE FormatBits(n \div 2, width - 1) \o <<n % 2>>

\* format(n, '032b')
Format032b(n) == FormatBits(n, 32)

\* ''.join(format(byte, '08b') for byte in data)
RECURSIVE BinaryData(_)
BinaryData(data) ==
    IF Len(data) = 0 THEN << >> ELSE Format08b(Head(data)) \o BinaryData(Tail(data))

\* Python integers are unbounded and the model checker's are 32 bits wide: a
\* 32-bit field read from an image saturates here, far above every index of
\* the model's buffers, so that every slice it bounds is the slice Python takes
Saturation == 2 ^ 20

\* int(bits, 2) for a non-empty bit string
RECURSIVE IntBase2(_)
IntBase2(bits) ==
    IF Len(bits) = 0 THEN 0
    ELSE Min(Saturation, 2 * IntBase2(SubSeq(bits, 1, Len(bits) - 1)) + bits[Len(bits)])

\* (channel & ~1) | bit
SetLSB(channel, bit) == (channel - (channel % 2)) + bit

\* struct.pack('>H', n): raises struct.error outside 0..65535
PackH_ok(n) == n >= 0 /\ n <= 65535
PackH(n) == <<n \div 256, n % 256>>

\* struct.unpack('>H', two_bytes)[0]
UnpackH(b) == 256 * b[1] + b[2]

\* bytes.find(sub, start): lowest index >= start where sub occurs, else -1
MatchAt(s, sub, i) ==
    /\ i + Len(sub) <= Len(s)
    /\ \A k \in 1..Len(sub) : s[i + k] = sub[k]

RECURSIVE Find(_, _, _)
Find(s, sub, start) ==
    IF start + Len(sub) > Len(s) THEN -1
    ELSE IF MatchAt(s, sub, start) THEN start
    ELSE Find(s, sub, start + 1)

\* str.encode() (UTF-8) of one code point
EncodeCp(cp) ==
    IF cp < 128 THEN <<cp>>
    ELSE IF cp < 2048 THEN <<192 + (cp \div 64), 128 + (cp % 64)>>
    ELSE IF cp < 65536
        THEN <<224 + (cp \div 4096), 128 + ((cp \div 64) % 64), 128 + (cp % 64)>>
    ELSE <<240 + (cp \div 262144), 128 + ((cp \div 4096) % 64),
           128 + ((cp \div 64) % 64), 128 + (cp % 64)>>

RECURSIVE Encode(_)
Encode(str) ==
    IF Len(str) = 0 THEN << >> ELSE EncodeCp(Head(str)) \o Encode(Tail(str))

\* UTF-8 decoding of the sequence starting at byte index i (1-based):
\* [ok, cp, next]; an ill-formed sequence spans its maximal valid prefix
Continuations(b) ==
    IF b >= 194 /\ b <= 223 THEN 1
    ELSE IF b >= 224 /\ b <= 239 THEN 2
    ELSE IF b >= 240 /\ b <= 244 THEN 3
    ELSE 0

SecondLow(b) == IF b = 224 THEN 160 ELSE IF b = 240 THEN 144 ELSE 128
SecondHigh(b) == IF b = 237 THEN 159 ELSE IF b = 244 THEN 143 ELSE 191

ContinuationOk(bs, i, k) ==
    /\ i + k <= Len(bs)
    /\ bs[i + k] >= (IF k = 1 THEN SecondLow(bs[i]) ELSE 128)
    /\ bs[i + k] <= (IF k = 1 THEN SecondHigh(bs[i]) ELSE 191)

DecodeAt(bs, i) ==
    LET b == bs[i]
        need == Continuations(b)
        good == IF need >= 1 /\ ContinuationOk(bs, i, 1)
                THEN IF need >= 2 /\ ContinuationOk(bs, i, 2)
                     THEN IF need >= 3 /\ ContinuationOk(bs, i, 3) THEN 3 ELSE 2
                     ELSE 1
                ELSE 0
    IN  IF b < 128 THEN [ok |-> TRUE, cp |-> b, next |-> i + 1]
        ELSE IF need = 0 \/ good < need
            THEN [ok |-> FALSE, cp |-> 65533, next |-> i + 1 + good]
        ELSE IF need = 1
            THEN [ok |-> TRUE, cp |-> (b - 192) * 64 + (bs[i + 1] - 128), next |-> i + 2]
        ELSE IF need = 2
            THEN [ok |-> TRUE,
                  cp |-> (b - 224) * 4096 + (bs[i + 1] - 128) * 64 + (bs[i + 2] - 128),
                  next |-> i + 3]
        ELSE [ok |-> TRUE,
              cp |-> (b - 240) * 262144 + (bs[i + 1] - 128) * 4096
                     + (bs[i + 2] - 128) * 64 + (bs[i + 3] - 128),
              next |-> i + 4]

\* bytes.decode('utf-8', errors='replace')
RECURSIVE DecodeFrom(_, _)
DecodeFrom(bs, i) ==
    IF i > Len(bs) THEN << >>
    ELSE LET d == DecodeAt(bs, i) IN <<d.cp>> \o DecodeFrom(bs, d.next)

DecodeReplace(bs) == DecodeFrom(bs, 1)

\* bytes.decode('utf-8'): raises UnicodeDecodeError on an ill-formed sequence
RECURSIVE DecodeOkFrom(_, _)
DecodeOkFrom(bs, i) ==
    IF i > Len(bs) THEN TRUE
    ELSE LET d == DecodeAt(bs, i) IN d.ok /\ DecodeOkFrom(bs, d.next)

DecodeStrict_ok(bs) == DecodeOkFrom(bs, 1)

\* str(counter)
RECURSIVE Str(_)
Str(n) == IF n < 10 THEN <<48 + n>> ELSE Str(n \div 10) \o <<48 + (n % 10)>>

----------------------------------------------------------------------------
(* Images and files *)

NoImage == [channels |-> 0, pixels |-> << >>]

\* np.array(list(img.getdata())).flatten(): every channel of every pixel, raster order
Flatten(img) ==
    [i \in 1..(img.channels * Len(img.pixels)) |->
        img.pixels[((i - 1) \div img.channels) + 1][((i - 1) % img.channels) + 1]]

\* flatten_img.reshape(pixels, n_channels) and Image.fromarray
Reshape(flat, n_channels) ==
    [channels |-> n_channels,
     pixels |-> [p \in 1..(Len(flat) \div n_channels) |->
                    [c \in 1..n_channels |-> flat[(p - 1) * n_channels + c]]]]

\* img.convert("RGB"): L is replicated, RGB is kept, the alpha of RGBA is dropped
ConvertRGB(img) ==
    [channels |-> 3,
     pixels |-> [p \in 1..Len(img.pixels) |->
                    IF img.channels = 1
                    THEN <<img.pixels[p][1], img.pixels[p][1], img.pixels[p][1]>>
                    ELSE SubSeq(img.pixels[p], 1, 3)]]

\* the outcome of one call: what it returned or raised, the in-memory channel
\* buffer when it ended, the image it saved, what it recovered, wrote and logged
Outcome(op, src, ok, err, buffer, saved, file_data, file_ext, path, warnings) ==
    [op |-> op, src |-> src, ok |-> ok, err |-> err, buffer |-> buffer,
     saved |-> saved, file_data |-> file_data, file_ext |-> file_ext,
     path |-> path, warnings |-> warnings]

----------------------------------------------------------------------------
(* steganography_tool.py: SteganographyTool, the delimiter-framed codec *)

\* self.delimiter = b'END_OF_FILE'
delimiter == <<69, 78, 68, 95, 79, 70, 95, 70, 73, 76, 69>>

calculate_capacity(img) ==
    LET n_channels == img.channels
        n_pixels == Len(img.pixels)
        total_bits == n_pixels * n_channels
        max_bytes == total_bits \div 8
        overhead == 2 + Len(delimiter)
    IN  IF n_channels \notin {3, 4}
        THEN [ok |-> FALSE, pixels |-> n_pixels, channels |-> n_channels,
              total_bits |-> 0, max_bytes |-> 0, usable_bytes |-> 0]
        ELSE [ok |-> TRUE, pixels |-> n_pixels, channels |-> n_channels,
              total_bits |-> total_bits, max_bytes |-> max_bytes,
              usable_bytes |-> max_bytes - overhead]

\* faulty variant, for mutation analysis: the extension follows the file data
data_to_hide_ext_last(secret_data, file_ext) ==
    PackH(Len(file_ext)) \o secret_data \o file_ext \o delimiter

\* data_to_hide = ext_len_bytes + file_ext + secret_data + self.delimiter
data_to_hide(secret_data, file_ext) ==
    PackH(Len(file_ext)) \o file_ext \o secret_data \o delimiter

\* faulty variant, for mutation analysis: the loop stops one bit early
EmbedFlat_short(flatten_img, binary_data) ==
    [i \in 1..Len(flatten_img) |->
        IF i < Len(binary_data)
        THEN SetLSB(flatten_img[i], binary_data[i])
        ELSE flatten_img[i]]

\* the loop replacing the least significant bit of flatten_img[i] by binary_data[i]
EmbedFlat(flatten_img, binary_data) ==
    [i \in 1..Len(flatten_img) |->
        IF i <= Len(binary_data)
        THEN SetLSB(flatten_img[i], binary_data[i])
        ELSE flatten_img[i]]

HideFail(op, err, buffer) ==
    Outcome(op, "cover", FALSE, err, buffer, NoImage, << >>, << >>, << >>, {})

\* faulty variant, for mutation analysis: the capacity check comes after the embedding loop
hide_data_embed_first(img, secret_data, ext) ==
    LET capacity == calculate_capacity(img)
        flatten_img == Flatten(img)
        file_ext == Encode(ext)
        payload == data_to_hide(secret_data, file_ext)
        embedded == EmbedFlat(flatten_img, BinaryData(payload))
    IN  IF ~capacity.ok
        THEN HideFail("hide_data", "UnsupportedFormat", flatten_img)
        ELSE IF ~PackH_ok(Len(file_ext))
        THEN HideFail("hide_data", "StructError", flatten_img)
        ELSE IF Len(payload) > capacity.max_bytes
        THEN HideFail("hide_data", "CapacityExceeded", embedded)
        ELSE Outcome("hide_data", "cover", TRUE, "", embedded,
                     Reshape(embedded, capacity.channels), << >>, << >>, << >>, {})

\* hide_data(cover_image_path, secret_file_path, output_path); ext is
\* os.path.splitext(secret_file_path)[1]
hide_data(img, secret_data, ext) ==
    LET capacity == calculate_capacity(img)
        flatten_img == Flatten(img)
        file_ext == Encode(ext)
        payload == data_to_hide(secret_data, file_ext)
        binary_data == BinaryData(payload)
        embedded == EmbedFlat(flatten_img, binary_data)
    IN  IF ~capacity.ok
        THEN HideFail("hide_data", "UnsupportedFormat", flatten_img)
        ELSE IF ~PackH_ok(Len(file_ext))
        THEN HideFail("hide_data", "StructError", flatten_img)
        ELSE IF Len(payload) > capacity.max_bytes
        THEN HideFail("hide_data", "CapacityExceeded", flatten_img)
        ELSE Outcome("hide_data", "cover", TRUE, "", embedded,
                     Reshape(embedded, capacity.channels), << >>, << >>, << >>, {})

\* extracted_bits: the least significant bit of every value of flatten_img
ExtractedBits(flatten_img) == [i \in 1..Len(flatten_img) |-> flatten_img[i] % 2]

\* extracted_bytes: one byte per complete group of 8 bits
ExtractedBytes(extracted_bits) ==
    [k \in 1..(Len(extracted_bits) \div 8) |->
        IntBase2(SubSeq(extracted_bits, 8 * (k - 1) + 1, 8 * k))]

\* "extracted" and "extracted_"
base_name == <<101, 120, 116, 114, 97, 99, 116, 101, 100>>
underscore == <<95>>

\* the while loop choosing a name that does not exist in the output folder
RECURSIVE UniqueName(_, _, _)
UniqueName(dir, file_ext, counter) ==
    LET output_file == base_name \o underscore \o Str(counter) \o file_ext
    IN  IF output_file \in DOMAIN dir
        THEN UniqueName(dir, file_ext, counter + 1)
        ELSE output_file

OutputFile(dir, file_ext) ==
    IF (base_name \o file_ext) \in DOMAIN dir
    THEN UniqueName(dir, file_ext, 1)
    ELSE base_name \o file_ext

\* open(path, 'wb').write(data)
WriteFile(dir, path, data) ==
    [f \in DOMAIN dir \cup {path} |-> IF f = path THEN data ELSE dir[f]]

ExtractFail(op, src, err, warnings) ==
    Outcome(op, src, FALSE, err, << >>, NoImage, << >>, << >>, << >>, warnings)

\* faulty variant, for mutation analysis: the delimiter is searched from the start of the recovered bytes
FileData_from_zero(extracted_bytes, data_start) ==
    LET delimiter_pos == Find(extracted_bytes, delimiter, 0)
    IN  IF delimiter_pos = -1
        THEN [found |-> FALSE,
              file_data |-> Slice(extracted_bytes, data_start, Len(extracted_bytes))]
        ELSE [found |-> TRUE,
              file_data |-> Slice(extracted_bytes, data_start, delimiter_pos)]

\* where the file data ends: the delimiter found from data_start, else the end
FileData(extracted_bytes, data_start) ==
    LET delimiter_pos == Find(extracted_bytes, delimiter, data_start)
    IN  IF delimiter_pos = -1
        THEN [found |-> FALSE,
              file_data |-> Slice(extracted_bytes, data_start, Len(extracted_bytes))]
        ELSE [found |-> TRUE,
              file_data |-> Slice(extracted_bytes, data_start, delimiter_pos)]

\* faulty variant, for mutation analysis: the fallback is silent
MissingDelimiterLog_silent(found) == {}

\* the message logged when the delimiter is not found
MissingDelimiterLog(found) == IF found THEN {} ELSE {"delimiter not found"}

\* extract_data(stego_image_path, output_folder): the outcome and the folder after it
extract_data(img, src, dir) ==
    LET extracted_bytes == ExtractedBytes(ExtractedBits(Flatten(img)))
        ext_len == UnpackH(extracted_bytes)
        w1 == IF ext_len > 10 THEN {"extension length unusually large"} ELSE {}
        file_ext == DecodeReplace(Slice(extracted_bytes, 2, 2 + ext_len))
        data_start == 2 + ext_len
        fd == FileData(extracted_bytes, data_start)
        warnings == w1 \cup MissingDelimiterLog(fd.found)
        output_file == OutputFile(dir, file_ext)
    IN  IF img.channels \notin {3, 4}
        THEN [out |-> ExtractFail("extract_data", src, "UnsupportedFormat", {}), dir |-> dir]
        ELSE IF Len(extracted_bytes) < 2
        THEN [out |-> ExtractFail("extract_data", src, "TruncatedHeader", {}), dir |-> dir]
        ELSE IF Len(extracted_bytes) < 2 + ext_len
        THEN [out |-> ExtractFail("extract_data", src, "TruncatedExtension", w1), dir |-> dir]
        ELSE [out |-> Outcome("extract_data", src, TRUE, "", << >>, NoImage,
                              fd.file_data, file_ext, output_file, warnings),
              dir |-> WriteFile(dir, output_file, fd.file_data)]

----------------------------------------------------------------------------
(* steganography_utils.py, steganography_hide.py, steganography_extract.py: *)
(* the length-prefixed codec                                                *)

\* MAX_FILE_SIZE = 10 * 1024 * 1024, scaled
MAX_FILE_SIZE == MaxFileSizeScaled

\* validate_file_size raises unless this holds
validate_file_size(data) == ~(Len(data) > MAX_FILE_SIZE)

\* _bits_to_bytes: one byte per group of 8 bits, the last group may be shorter
bits_to_bytes(bits) ==
    [k \in 1..((Len(bits) + 7) \div 8) |-> IntBase2(Slice(bits, 8 * (k - 1), 8 * k))]

\* faulty variant, for mutation analysis: the two length fields are written in the other order
get_size_info_swapped(file_bytes, ext_bytes) ==
    bits_to_bytes(Format032b(Len(ext_bytes)) \o Format032b(Len(file_bytes)))

\* _get_size_info
get_size_info(file_bytes, ext_bytes) ==
    bits_to_bytes(Format032b(Len(file_bytes)) \o Format032b(Len(ext_bytes)))

\* faulty variant, for mutation analysis: the division rounds down
required_pixels_floor(payload) == (Len(payload) * 8) \div 3

\* math.ceil(len(payload) * 8 / 3)
required_pixels(payload) == ((Len(payload) * 8) + 2) \div 3

\* _prepare_image raises unless this holds
prepare_image_ok(img, payload) == ~(Len(img.pixels) < required_pixels(payload))

\* faulty variant, for mutation analysis: the bits go to every channel of each pixel
embed_data_in_image_all(image, data) ==
    LET flat_data_bits == BinaryData(data)
    IN  [channels |-> image.channels,
         pixels |-> [p \in 1..Len(image.pixels) |->
            [c \in 1..image.channels |->
                IF (image.channels * (p - 1) + (c - 1)) < Len(flat_data_bits)
                THEN SetLSB(image.pixels[p][c],
                            flat_data_bits[image.channels * (p - 1) + c])
                ELSE image.pixels[p][c]]]]

\* _embed_data_in_image: the bits go to the first three channels of each pixel,
\* pixel[3:] is appended as it is
embed_data_in_image(image, data) ==
    LET flat_data_bits == BinaryData(data)
        rgb == Min(3, image.channels)
    IN  [channels |-> image.channels,
         pixels |-> [p \in 1..Len(image.pixels) |->
            [c \in 1..image.channels |->
                IF c <= 3 /\ (rgb * (p - 1) + (c - 1)) < Len(flat_data_bits)
                THEN SetLSB(image.pixels[p][c], flat_data_bits[rgb * (p - 1) + c])
                ELSE image.pixels[p][c]]]]

\* os.path.splitext(file_path)[1][1:]
StripDot(ext) == IF Len(ext) = 0 THEN ext ELSE Tail(ext)

\* payload = size_info + ext_bytes + file_bytes
hide_payload(file_bytes, ext_bytes) ==
    get_size_info(file_bytes, ext_bytes) \o ext_bytes \o file_bytes

\* hide(file_path, image_path, output_path); ext is os.path.splitext(file_path)[1]
hide(img, file_bytes, ext) ==
    LET ext_bytes == Encode(StripDot(ext))
        payload == hide_payload(file_bytes, ext_bytes)
        image == ConvertRGB(img)
        encoded_image == embed_data_in_image(image, payload)
    IN  IF ~validate_file_size(file_bytes)
        THEN HideFail("hide", "FileTooLarge", Flatten(img))
        ELSE IF ~prepare_image_ok(image, payload)
        THEN HideFail("hide", "CapacityExceeded", Flatten(img))
        ELSE Outcome("hide", "cover", TRUE, "", Flatten(encoded_image),
                     encoded_image, << >>, << >>, << >>, {})

\* flat_bits: _get_lsb_bits of every pixel, three bits a pixel
FlatBits(image) ==
    [i \in 1..(3 * Len(image.pixels)) |->
        image.pixels[((i - 1) \div 3) + 1][((i - 1) % 3) + 1] % 2]

\* "extracted_file."
extracted_file == <<101, 120, 116, 114, 97, 99, 116, 101, 100, 95, 102, 105, 108, 101, 46>>

\* extract(image_path, output_folder): the outcome and the folder after it
extract(img, src, dir) ==
    LET image == ConvertRGB(img)
        flat_bits == FlatBits(image)
        size == IntBase2(Slice(flat_bits, 0, 32))
        ext_size == IntBase2(Slice(flat_bits, 32, 64))
        ext_raw == bits_to_bytes(Slice(flat_bits, 64, 64 + (ext_size * 8)))
        file_data == bits_to_bytes(Slice(flat_bits, 64 + (ext_size * 8),
                                         64 + (ext_size * 8) + (size * 8)))
        output_path == extracted_file \o DecodeReplace(ext_raw)
    IN  IF Len(Slice(flat_bits, 0, 32)) = 0 \/ Len(Slice(flat_bits, 32, 64)) = 0
        THEN [out |-> ExtractFail("extract", src, "ValueError", {}), dir |-> dir]
        ELSE IF ~DecodeStrict_ok(ext_raw)
        THEN [out |-> ExtractFail("extract", src, "UnicodeDecodeError", {}), dir |-> dir]
        ELSE [out |-> Outcome("extract", src, TRUE, "", << >>, NoImage,
                              file_data, DecodeReplace(ext_raw), output_path, {}),
              dir |-> WriteFile(dir, output_path, file_data)]

----------------------------------------------------------------------------
(* The inputs: cover images, secret files and their extensions *)

\* channel value i (from 0) of a cover, by the cover's pattern
Pattern(kind, i) ==
    IF kind = "zeros" THEN 0
    ELSE IF kind = "ones" THEN 255
    ELSE ((i * 73) + ((i \div 5) * 41) + 13) % 256

CoverImage(channels, n_pixels, kind) ==
    [channels |-> channels,
     pixels |-> [p \in 1..n_pixels |->
                    [c \in 1..channels |-> Pattern(kind, (p - 1) * channels + (c - 1))]]]

Covers ==
    { CoverImage(1, 8, "mixed"),
      CoverImage(3, 1, "ones"),
      CoverImage(3, 11, "ones"),
      CoverImage(3, 34, "mixed"),
      CoverImage(3, 35, "mixed"),
      CoverImage(4, 26, "mixed"),
      CoverImage(3, BigPixels, "zeros"),
      CoverImage(4, BigPixels, "mixed") }

Files ==
    { << >>,
      <<65>>,
      <<65, 65>> \o delimiter \o <<66, 66>>,
      SubSeq(delimiter, 1, Len(delimiter) - 1),
      <<65>> \o SubSeq(delimiter, 1, Len(delimiter) - 2),
      [i \in 1..MAX_FILE_SIZE |-> (i * 85) % 256],
      [i \in 1..(MAX_FILE_SIZE + 1) |-> (i * 85) % 256] }

\* os.path.splitext(path)[1]: "", ".e-acute", ".END_OF_FILE"
Extensions ==
    { << >>, <<46, 233>>, <<46>> \o delimiter }

----------------------------------------------------------------------------
(* The state machine: one action per entry point *)

NoOutcome == Outcome("none", "none", TRUE, "", << >>, NoImage, << >>, << >>, << >>, {})

Init ==
    /\ cover \in Covers
    /\ secret \in Files
    /\ secret_ext \in Extensions
    /\ stego = [by |-> "none", image |-> NoImage]
    /\ outdir = << >>
    /\ nextract = 0
    /\ last = NoOutcome

\* the images on disk an extraction can be pointed at
Sources == {"cover"} \cup (IF stego.by = "none" THEN {} ELSE {"stego"})
SourceImage(src) == IF src = "cover" THEN cover ELSE stego.image

HideData ==
    LET r == hide_data(cover, secret, secret_ext)
    IN  /\ last' = r
        /\ stego' = IF r.ok THEN [by |-> "hide_data", image |-> r.saved] ELSE stego
        /\ UNCHANGED <<cover, secret, secret_ext, outdir, nextract>>

Hide ==
    LET r == hide(cover, secret, secret_ext)
    IN  /\ last' = r
        /\ stego' = IF r.ok THEN [by |-> "hide", image |-> r.saved] ELSE stego
        /\ UNCHANGED <<cover, secret, secret_ext, outdir, nextract>>

ExtractData ==
    /\ nextract < MaxExtractions
    /\ \E src \in Sources :
        LET r == extract_data(SourceImage(src), src, outdir)
        IN  /\ last' = r.out
            /\ outdir' = r.dir
    /\ nextract' = nextract + 1
    /\ UNCHANGED <<cover, secret, secret_ext, stego>>

Extract ==
    /\ nextract < MaxExtractions
    /\ \E src \in Sources :
        LET r == extract(SourceImage(src), src, outdir)
        IN  /\ last' = r.out
            /\ outdir' = r.dir
    /\ nextract' = nextract + 1
    /\ UNCHANGED <<cover, secret, secret_ext, stego>>

\* a direct call of _embed_data_in_image on the cover, any band count from 3
EmbedDataInImage ==
    /\ cover.channels >= 3
    /\ stego.by = "none"
    /\ nextract = 0
    /\ LET image == embed_data_in_image(cover, secret)
       IN  last' = Outcome("embed", "cover", TRUE, "", Flatten(image), image,
                           << >>, << >>, << >>, {})
    /\ UNCHANGED <<cover, secret, secret_ext, stego, outdir, nextract>>

Next == HideData \/ Hide \/ ExtractData \/ Extract \/ EmbedDataInImage

Spec == Init /\ [][Next]_vars

----------------------------------------------------------------------------
(* Vocabulary of the properties *)

\* bit i (from 1) of a byte sequence, most significant bit of each byte first
BitOf(data, i) == (data[((i - 1) \div 8) + 1] \div (2 ^ (7 - ((i - 1) % 8)))) % 2

\* the delimiter occurs in s at offset p (from 0)
OccursAt(s, p) ==
    /\ p >= 0
    /\ p + Len(delimiter) <= Len(s)
    /\ \A k \in 1..Len(delimiter) : s[p + k] = delimiter[k]

\* the bytes an extraction recovers from the image the last call read
Recovered == ExtractedBytes(ExtractedBits(Flatten(SourceImage(last.src))))

\* the offset where the file data starts in recovered bytes rec
DataStartOf(rec) == 2 + (256 * rec[1]) + rec[2]

\* the offsets from the start of the file data at which the delimiter occurs in rec
Occurrences(rec) == {p \in DataStartOf(rec)..Len(rec) : OccursAt(rec, p)}

\* the last call extracted, with SteganographyTool, an image hide_data made
ToolRoundTrip ==
    /\ last.op = "extract_data"
    /\ last.src = "stego"
    /\ stego.by = "hide_data"

\* the last call extracted, with extract, an image hide made
LengthPrefixedRoundTrip ==
    /\ last.op = "extract"
    /\ last.src = "stego"
    /\ stego.by = "hide"

\* the secret followed by the delimiter holds the delimiter nowhere before its end
NoEarlyDelimiter ==
    \A p \in 0..(Len(secret) - 1) : ~OccursAt(secret \o delimiter, p)

\* the two payloads, from the frame layouts: [2-byte big-endian ext_length]
\* [extension][file_bytes][delimiter] and [32-bit size][32-bit extension
\* length][extension][file_bytes]
BigEndian32(n) ==
    <<n \div 16777216, (n \div 65536) % 256, (n \div 256) % 256, n % 256>>

ToolPayload ==
    <<Len(Encode(secret_ext)) \div 256, Len(Encode(secret_ext)) % 256>>
        \o Encode(secret_ext) \o secret \o delimiter

LengthPrefixedPayload ==
    BigEndian32(Len(secret)) \o BigEndian32(Len(Encode(StripDot(secret_ext))))
        \o Encode(StripDot(secret_ext)) \o secret

\* buffer `after` is buffer `before` with the bits of data, most significant
\* bit first, in the least significant bits of its first values, the upper
\* seven bits and every later value as before
EmbeddedIn(before, data, after) ==
    /\ Len(after) = Len(before)
    /\ \A i \in 1..Len(before) :
        after[i] = IF i <= 8 * Len(data)
                   THEN (2 * (before[i] \div 2)) + BitOf(data, i)
                   ELSE before[i]

\* lengths of the two payloads
ToolPayloadLen == 2 + Len(Encode(secret_ext)) + Len(secret) + Len(delimiter)
LengthPrefixedPayloadLen == 4 + 4 + Len(Encode(StripDot(secret_ext))) + Len(secret)

----------------------------------------------------------------------------
(* C1 *)

\* C1 as stated: extracting what hide_data embedded returns (file_bytes,
\* extension) for every file and every extension
C1_RoundTripEveryFile ==
    ToolRoundTrip =>
        /\ last.ok
        /\ last.file_data = secret
        /\ last.file_ext = secret_ext

\* C1, amended: extracting what hide_data embedded returns (file_bytes,
\* extension) for every extension and every file such that file_bytes followed
\* by the delimiter contains the delimiter at no offset before len(file_bytes)
C1_RoundTrip ==
    (ToolRoundTrip /\ NoEarlyDelimiter) =>
        /\ last.ok
        /\ last.file_data = secret
        /\ last.file_ext = secret_ext

C1_Witness ==
    /\ ToolRoundTrip
    /\ NoEarlyDelimiter
    /\ Len(secret) = MAX_FILE_SIZE
    /\ Len(secret_ext) > 0
    /\ last.file_data = secret

----------------------------------------------------------------------------
(* C2 *)

\* C2: hide_data on a 3- or 4-channel image succeeds iff the payload is at most
\* floor(channels * pixels / 8) bytes long, hide (file size allowed) iff it is at
\* most floor(3 * pixels / 8) bytes long; a rejection is a capacity error
C2_CapacityBoundary ==
    /\ (last.op = "hide_data" /\ cover.channels \in {3, 4}
            /\ Len(Encode(secret_ext)) <= 65535) =>
        /\ last.ok <=> (ToolPayloadLen <= (cover.channels * Len(cover.pixels)) \div 8)
        /\ ~last.ok => last.err = "CapacityExceeded"
    /\ (last.op = "hide" /\ Len(secret) <= MAX_FILE_SIZE) =>
        /\ last.ok <=> (LengthPrefixedPayloadLen <= (3 * Len(cover.pixels)) \div 8)
        /\ ~last.ok => last.err = "CapacityExceeded"

\* hide rejected a payload exactly one byte over the capacity
C2_Witness ==
    /\ last.op = "hide"
    /\ ~last.ok
    /\ last.err = "CapacityExceeded"
    /\ LengthPrefixedPayloadLen = ((3 * Len(cover.pixels)) \div 8) + 1

\* hide_data accepted a payload of exactly the capacity
C2_BoundaryAccepted ==
    /\ last.op = "hide_data"
    /\ last.ok
    /\ ToolPayloadLen = (cover.channels * Len(cover.pixels)) \div 8

----------------------------------------------------------------------------
(* C3 *)

\* C3: a hide call that fails leaves the channel buffer as the cover's, saves no
\* image, and leaves the output image on disk as it was
C3_NoPartialEmbed ==
    [][(last'.op \in {"hide_data", "hide"} /\ ~last'.ok) =>
            /\ last'.buffer = Flatten(cover)
            /\ last'.saved = NoImage
            /\ stego' = stego
            /\ cover' = cover]_vars

\* a hide call failed on capacity
C3_Witness ==
    /\ last.op = "hide_data"
    /\ ~last.ok
    /\ last.err = "CapacityExceeded"
    /\ Len(last.buffer) > 0

----------------------------------------------------------------------------
(* C4 *)

\* C4: when the delimiter occurs in the recovered bytes at or after offset
\* 2+ext_length, extract_data succeeds and returns the bytes from that offset up
\* to the first such occurrence, whatever occurs before the offset; hiding
\* "AA" + delimiter + "BB" recovers "AA"
C4_DelimiterCollision ==
    /\ (last.op = "extract_data") =>
        LET rec == Recovered
        IN  (Len(rec) >= 2 /\ Occurrences(rec) # {}) =>
                /\ last.ok
                /\ \E p \in Occurrences(rec) :
                    /\ \A q \in Occurrences(rec) : p <= q
                    /\ last.file_data = SubSeq(rec, DataStartOf(rec) + 1, p)
    /\ (ToolRoundTrip /\ secret = <<65, 65>> \o delimiter \o <<66, 66>>) =>
            last.file_data = <<65, 65>>

\* the delimiter occurs in the extension and in the file, and the file data
\* returned ends at the occurrence in the file
C4_Witness ==
    /\ ToolRoundTrip
    /\ secret = <<65, 65>> \o delimiter \o <<66, 66>>
    /\ last.ok
    /\ last.file_data = <<65, 65>>
    /\ LET rec == Recovered
       IN  \E p \in 0..(DataStartOf(rec) - 1) : OccursAt(rec, p)

----------------------------------------------------------------------------
(* C5 *)

\* the bytes the length-prefixed extract recovers, and the sizes its header declares
LengthPrefixedBits == FlatBits(ConvertRGB(SourceImage(last.src)))
DeclaredSize(bits) == IntBase2(Slice(bits, 0, 32))
DeclaredExtSize(bits) == IntBase2(Slice(bits, 32, 64))

\* C5: an extraction fails, and returns no file data, when the recovered bytes
\* are fewer than the header, or than the header plus the declared extension
\* length, or (length-prefixed) than those plus the declared file size
C5_TruncatedIsError ==
    /\ (last.op = "extract_data" /\ SourceImage(last.src).channels \in {3, 4}) =>
        LET rec == Recovered
        IN  (Len(rec) < 2 \/ Len(rec) < DataStartOf(rec)) =>
                (~last.ok /\ last.file_data = << >>)
    /\ (last.op = "extract") =>
        LET bits == LengthPrefixedBits
        IN  (\/ Len(bits) \div 8 < 8
             \/ Len(bits) \div 8 < 8 + DeclaredExtSize(bits)
             \/ Len(bits) \div 8 < 8 + DeclaredExtSize(bits) + DeclaredSize(bits)) =>
                (~last.ok /\ last.file_data = << >>)

----------------------------------------------------------------------------
(* C6 *)

\* C6: extracting what hide embedded returns exactly the file bytes and the
\* extension, whatever bytes the file holds
C6_LengthPrefixedRoundTrip ==
    LengthPrefixedRoundTrip =>
        /\ last.ok
        /\ last.file_data = secret
        /\ last.file_ext = StripDot(secret_ext)
        /\ last.path \in DOMAIN outdir
        /\ outdir[last.path] = secret

\* a file holding the delimiter, with an extension, came back whole
C6_Witness ==
    /\ LengthPrefixedRoundTrip
    /\ secret = <<65, 65>> \o delimiter \o <<66, 66>>
    /\ Len(secret_ext) > 0
    /\ last.file_data = secret

----------------------------------------------------------------------------
(* C7 *)

\* C7: every hide entry point rejects a secret file longer than MAX_FILE_SIZE
\* and an extension longer than 65535 bytes, embedding nothing (the kind of the
\* error is left open here: a call that succeeds is what refutes this)
C7_PayloadPreconditions ==
    (/\ last.op \in {"hide_data", "hide"}
     /\ (Len(secret) > MAX_FILE_SIZE \/ Len(Encode(secret_ext)) > 65535)) =>
        (~last.ok /\ last.saved = NoImage)

----------------------------------------------------------------------------
(* C8 *)

\* C8: a file in the output folder keeps its contents at every step
C8_NoOverwrite ==
    [][\A f \in DOMAIN outdir : f \in DOMAIN outdir' /\ outdir'[f] = outdir[f]]_vars

----------------------------------------------------------------------------
(* C9 *)

\* C9: a successful embed puts the payload's bits, most significant bit first,
\* in the least significant bits of the first channel values and changes
\* nothing else: not the upper seven bits, not a later value, not the length,
\* and in _embed_data_in_image not the fourth channel
C9_EmbedEffectAndFrame ==
    /\ (last.op = "hide_data" /\ last.ok) =>
        /\ EmbeddedIn(Flatten(cover), ToolPayload, last.buffer)
        /\ Flatten(last.saved) = last.buffer
    /\ (last.op = "hide" /\ last.ok) =>
        /\ EmbeddedIn(Flatten(ConvertRGB(cover)), LengthPrefixedPayload, last.buffer)
        /\ Flatten(last.saved) = last.buffer
    /\ (last.op = "embed") =>
        /\ EmbeddedIn(Flatten(ConvertRGB(cover)), secret, Flatten(ConvertRGB(last.saved)))
        /\ last.saved.channels = cover.channels
        /\ Len(last.saved.pixels) = Len(cover.pixels)
        /\ \A p \in 1..Len(cover.pixels) :
            \A c \in 4..cover.channels : last.saved.pixels[p][c] = cover.pixels[p][c]

\* _embed_data_in_image embedded a file in an image with a fourth channel
C9_Witness ==
    /\ last.op = "embed"
    /\ cover.channels = 4
    /\ Len(secret) > 0
    /\ 8 * Len(secret) < 3 * Len(cover.pixels)
    /\ last.saved # cover

----------------------------------------------------------------------------
(* C10 *)

\* C10: when the delimiter does not occur at or after offset 2+ext_length in
\* the recovered bytes, extract_data fails with a delimiter-not-found error, or
\* logs the warning and returns all recovered bytes from that offset on
C10_MissingDelimiterLogged ==
    (last.op = "extract_data" /\ SourceImage(last.src).channels \in {3, 4}) =>
        LET rec == Recovered
        IN  (Len(rec) >= 2 /\ Len(rec) >= DataStartOf(rec) /\ Occurrences(rec) = {}) =>
                \/ (~last.ok /\ last.err = "DelimiterNotFound" /\ last.file_data = << >>)
                \/ /\ last.ok
                   /\ "delimiter not found" \in last.warnings
                   /\ last.file_data = SubSeq(rec, DataStartOf(rec) + 1, Len(rec))

\* an image without the delimiter was extracted
C10_Witness ==
    /\ last.op = "extract_data"
    /\ last.ok
    /\ "delimiter not found" \in last.warnings
    /\ Len(last.file_data) > 0
    /\ last.path \in DOMAIN outdir

----------------------------------------------------------------------------
(* C11 *)

\* the secret holds the delimiter as a contiguous subsequence
SecretHoldsDelimiter == \E p \in 0..Len(secret) : OccursAt(secret, p)

\* the secret ends with the delimiter less its last byte ("END_OF_FIL")
SecretEndsInDelimiterHead ==
    /\ Len(secret) >= Len(delimiter) - 1
    /\ \A k \in 1..(Len(delimiter) - 1) :
        secret[Len(secret) - (Len(delimiter) - 1) + k] = delimiter[k]

\* the first delimiter found from the start of the file data lies right after
\* the secret, and the file data returned is the secret
RecoveredWhole ==
    /\ last.ok
    /\ last.file_data = secret
    /\ LET rec == Recovered
           data_start == DataStartOf(rec)
       IN  /\ OccursAt(rec, data_start + Len(secret))
           /\ \A p \in data_start..(data_start + Len(secret) - 1) : ~OccursAt(rec, p)

\* C11 as stated: every file that does not hold the delimiter comes back whole
\* from extract_data after hide_data, a file ending in "END_OF_FIL" included
C11_DelimiterAbsenceSuffices ==
    (ToolRoundTrip /\ ~SecretHoldsDelimiter) => RecoveredWhole

\* C11, amended: every file that does not hold the delimiter and does not end
\* with its first ten bytes "END_OF_FIL" comes back whole from extract_data
\* after hide_data, a file ending in a shorter head of the delimiter included
C11_AbsenceAndNoDelimiterHead ==
    (ToolRoundTrip /\ ~SecretHoldsDelimiter /\ ~SecretEndsInDelimiterHead) =>
        RecoveredWhole

\* a file ending in "END_OF_FI", hidden with an extension, came back whole
C11_Witness ==
    /\ ToolRoundTrip
    /\ secret = <<65>> \o SubSeq(delimiter, 1, Len(delimiter) - 2)
    /\ Len(secret_ext) > 0
    /\ RecoveredWhole

====
